---- MODULE Spec2Model ----
(***************************************************************************)
(* Call-log generator (generate_all_call_data) and PDF table renderer      *)
(* (create_pdf_bytes) of app.py, as two state machines over one set of     *)
(* variables.  SpecGen steps through the loops of the generator, SpecPdf   *)
(* through the cells painted by the renderer.                              *)
(***************************************************************************)
EXTENDS Integers, Sequences, FiniteSets, TLC

VARIABLES
    \* arguments of generate_all_call_data
    phone_numbers, start_date, end_date, business_start, business_end,
    total_calls_per_day, avg_answered_total, jitter_max,
    \* locals of generate_all_call_data
    all_records, current_date, phone_idx, lead_id, attempt,
    daily_statuses, status_idx, time_cursor, pc,
    \* bookkeeping of the generator's loop iterations (not program state):
    \* the (day, list position) iteration that emitted each record, and the
    \* iterations that left the status loop through the business-end break
    rec_iter, broke,
    \* create_pdf_bytes: the data frame, the FPDF object and the call stack
    df, page, y, fill_color, font_style, text_color, lasth, stack, cells,
    calls, row_idx, rpc

gvars == <<phone_numbers, start_date, end_date, business_start, business_end,
           total_calls_per_day, avg_answered_total, jitter_max,
           all_records, current_date, phone_idx, lead_id, attempt,
           daily_statuses, status_idx, time_cursor, pc, rec_iter, broke>>

rvars == <<df, page, y, fill_color, font_style, text_color, lasth, stack, cells,
           calls, row_idx, rpc>>

vars == <<gvars, rvars>>

(***************************************************************************)
(* Bounds of the model.                                                    *)
(***************************************************************************)
MaxPhones == 2      \* entries in the phone-line list
MaxDays == 2        \* days in the date range
MaxCalls == 2       \* total_calls_per_day and avg_answered_total
MaxSlots == 2       \* list entries * days * total_calls_per_day of one call
MaxRows == 49       \* records in the data frame handed to create_pdf_bytes

\* characters of the phone-line strings; a string is a sequence of them
Blank == " "
PhoneStrings == { <<Blank>>, <<"5">>, <<Blank, "5">>, <<"7">> }
PhoneLists == UNION { [1..n -> PhoneStrings] : n \in 0..MaxPhones }

StartDates == {1}                \* day numbers; a day is 86400 seconds
BusinessHours == {0, 9, 10}      \* sample of the hours 0..23
JitterValues == {0, 1, 4000}     \* sample of jitter_max
\* sample of random.random() in random.uniform: a + (b - a) * random()
RandomFractions == { <<0, 4>>, <<1, 4>>, <<2, 4>>, <<4, 4>> }

(***************************************************************************)
(* datetime and timedelta: seconds and microseconds, normalised.            *)
(***************************************************************************)
SecondsPerHour == 3600
SecondsPerDay == 86400
MicrosPerSecond == 1000000

Min(a, b) == IF a <= b THEN a ELSE b
Max(a, b) == IF a >= b THEN a ELSE b

\* datetime.combine(date, datetime.min.time())
Midnight(date) == [s |-> date * SecondsPerDay, us |-> 0]

\* timedelta(hours=h)
Hours(h) == [s |-> h * SecondsPerHour, us |-> 0]

\* datetime + timedelta
DtAdd(t, d) ==
    LET us == t.us + d.us
    IN  [s |-> t.s + d.s + (us \div MicrosPerSecond), us |-> us % MicrosPerSecond]

\* datetime >= datetime
DtGe(a, b) == a.s > b.s \/ (a.s = b.s /\ a.us >= b.us)

\* datetime <= datetime
DtLe(a, b) == DtGe(b, a)

\* timedelta(seconds=num/den): rounded to the nearest microsecond, half to even
TimeDeltaSeconds(num, den) ==
    LET sec == num \div den
        rem == num % den
        q   == (rem * MicrosPerSecond) \div den
        r   == (rem * MicrosPerSecond) % den
        us  == IF 2 * r > den \/ (2 * r = den /\ q % 2 = 1) THEN q + 1 ELSE q
    IN  [s |-> sec + (us \div MicrosPerSecond), us |-> us % MicrosPerSecond]

\* time_cursor.strftime("%d-%m-%Y %H:%M:%S"): the day and the second of the
\* day; the microseconds are not printed
strftime(t) == [day |-> t.s \div SecondsPerDay, sec |-> t.s % SecondsPerDay]

(***************************************************************************)
(* strings and random draws                                                *)
(***************************************************************************)
RECURSIVE lstrip(_)
lstrip(str) ==
    IF str # <<>> /\ Head(str) = Blank THEN lstrip(Tail(str)) ELSE str

RECURSIVE rstrip(_)
rstrip(str) ==
    IF str # <<>> /\ str[Len(str)] = Blank
    THEN rstrip(SubSeq(str, 1, Len(str) - 1))
    ELSE str

\* phone.strip()
strip(str) == rstrip(lstrip(str))

\* random.randint(a, b): a..b, of which the model keeps both ends
randint(a, b) == {a, b}

LeadIdLow == 300000
LeadIdHigh == 400000
LengthLow == 1
LengthHigh == 14

\* a pool that also holds Answered
PoolWithAnswered == {"Answered", "Busy", "Not Answered", "Others"}

remaining_statuses_pool == {"Busy", "Not Answered", "Others"}

\* random.shuffle(list): every ordering of the list
shuffle(list) ==
    { [i \in 1..Len(list) |-> list[p[i]]] : p \in Permutations(1..Len(list)) }

\* ["Answered"] * n
Repeat(x, n) == [i \in 1..Max(n, 0) |-> x]

\* actual_answered = min(avg_answered_total, total_calls_per_day)
actual_answered(answered, total) == Min(answered, total)

\* the lists daily_statuses can be after the appends and the shuffle
DailyStatuses(answered, total) ==
    LET aa == actual_answered(answered, total)
        remaining_for_this_day == total - aa
        drawn == [1..Max(remaining_for_this_day, 0) -> remaining_statuses_pool]
    IN  UNION { shuffle(Repeat("Answered", aa) \o d) : d \in drawn }

\* random.uniform(-jitter_max, jitter_max) = a + (b - a) * random(), as the
\* fraction num/den of a second
uniform(jmax, f) == [num |-> (-jmax) * f[2] + (2 * jmax) * f[1], den |-> f[2]]

\* timedelta(seconds=uniform_interval_seconds + jitter), with
\* uniform_interval_seconds = total_business_seconds / total_calls_per_day
TimeAdvance(seconds, total, jitter) ==
    TimeDeltaSeconds(seconds * jitter.den + jitter.num * total,
                     total * jitter.den)

\* the break taken only strictly after the business end
StrictlyPastBusinessEnd(cursor, day_end_time) ==
    cursor.s > day_end_time.s \/ (cursor.s = day_end_time.s /\ cursor.us > day_end_time.us)

\* if time_cursor >= day_end_time: break
PastBusinessEnd(cursor, day_end_time) == DtGe(cursor, day_end_time)

\* a length drawn whatever the status
CallLengthAnyStatus(call_status) == {LengthLow, LengthHigh}

\* length = random.randint(1, 14) if call_status == "Answered" else 0
CallLength(call_status) ==
    IF call_status = "Answered" THEN randint(LengthLow, LengthHigh) ELSE {0}

\* the dict with the values of Attempt and Lead ID exchanged
MakeRecordSwapped(cursor, att, lead, call_status, length, phone) ==
    [ DateTime |-> [day |-> cursor.s \div SecondsPerDay, sec |-> cursor.s % SecondsPerDay],
      Attempt |-> lead, LeadID |-> att,
      Status |-> call_status, Length |-> length, Phone |-> phone ]

\* the dict appended to all_records
MakeRecord(cursor, att, lead, call_status, length, phone) ==
    [ DateTime |-> strftime(cursor), Attempt |-> att, LeadID |-> lead,
      Status |-> call_status, Length |-> length, Phone |-> phone ]

(***************************************************************************)
(* generate_all_call_data                                                  *)
(***************************************************************************)
total_business_seconds == (business_end - business_start) * SecondsPerHour
day_start_time == DtAdd(Midnight(current_date), Hours(business_start))
day_end_time == DtAdd(Midnight(current_date), Hours(business_end))

\* create_pdf_bytes is not running
RenderIdle ==
    /\ df = <<>> /\ page = 0 /\ y = 0 /\ fill_color = <<>>
    /\ font_style = "" /\ text_color = <<>> /\ lasth = 0
    /\ stack = <<>> /\ cells = <<>> /\ calls = <<>> /\ row_idx = 0
    /\ rpc = "idle"

InitGen ==
    /\ phone_numbers \in PhoneLists
    /\ start_date \in StartDates
    /\ end_date \in (start_date - 1) .. (start_date + MaxDays - 1)
    /\ business_start \in BusinessHours
    /\ business_end \in BusinessHours
    /\ business_end > business_start
    /\ total_calls_per_day \in 1..MaxCalls
    /\ avg_answered_total \in 0..MaxCalls
    /\ jitter_max \in JitterValues
    /\ Len(phone_numbers) * (end_date - start_date + 1) * total_calls_per_day <= MaxSlots
    /\ all_records = <<>>
    /\ current_date = start_date
    /\ phone_idx = 0
    /\ lead_id = 0
    /\ attempt = 0
    /\ daily_statuses = <<>>
    /\ status_idx = 0
    /\ time_cursor = Midnight(start_date)
    /\ pc = "while"
    /\ rec_iter = <<>>
    /\ broke = {}
    /\ RenderIdle

args == <<phone_numbers, start_date, end_date, business_start, business_end,
          total_calls_per_day, avg_answered_total, jitter_max>>

\* while current_date <= end_datetime: ... return all_records
WhileDay ==
    /\ pc = "while"
    /\ IF DtLe(Midnight(current_date), Midnight(end_date))
       THEN /\ pc' = "for_phone"
            /\ phone_idx' = 1
       ELSE /\ pc' = "done"
            /\ UNCHANGED phone_idx
    /\ UNCHANGED <<args, all_records, current_date, lead_id, attempt,
                   daily_statuses, status_idx, time_cursor, rec_iter, broke>>
    /\ UNCHANGED rvars

\* for phone in phone_numbers: the list is exhausted; current_date += 1 day
NextDay ==
    /\ pc = "for_phone"
    /\ phone_idx > Len(phone_numbers)
    /\ current_date' = current_date + 1
    /\ pc' = "while"
    /\ UNCHANGED <<args, all_records, phone_idx, lead_id, attempt,
                   daily_statuses, status_idx, time_cursor, rec_iter, broke>>
    /\ UNCHANGED rvars

\* for phone in phone_numbers: a blank entry is skipped
SkipBlank ==
    /\ pc = "for_phone"
    /\ phone_idx <= Len(phone_numbers)
    /\ strip(phone_numbers[phone_idx]) = <<>>
    /\ phone_idx' = phone_idx + 1
    /\ UNCHANGED <<args, all_records, current_date, lead_id, attempt,
                   daily_statuses, status_idx, time_cursor, pc, rec_iter, broke>>
    /\ UNCHANGED rvars

\* for phone in phone_numbers: lead id, statuses, shuffle, cursor reset
StartLine ==
    /\ pc = "for_phone"
    /\ phone_idx <= Len(phone_numbers)
    /\ strip(phone_numbers[phone_idx]) # <<>>
    /\ lead_id' \in randint(LeadIdLow, LeadIdHigh)
    /\ attempt' = 1
    /\ daily_statuses' \in DailyStatuses(avg_answered_total, total_calls_per_day)
    /\ time_cursor' = day_start_time
    /\ status_idx' = 1
    /\ pc' = "for_status"
    /\ UNCHANGED <<args, all_records, current_date, phone_idx, rec_iter, broke>>
    /\ UNCHANGED rvars

\* for call_status in daily_statuses: the list is exhausted
EndLine ==
    /\ pc = "for_status"
    /\ status_idx > Len(daily_statuses)
    /\ phone_idx' = phone_idx + 1
    /\ pc' = "for_phone"
    /\ UNCHANGED <<args, all_records, current_date, lead_id, attempt,
                   daily_statuses, status_idx, time_cursor, rec_iter, broke>>
    /\ UNCHANGED rvars

\* for call_status in daily_statuses: advance the cursor, break or append
CallSlot ==
    /\ pc = "for_status"
    /\ status_idx <= Len(daily_statuses)
    /\ \E f \in RandomFractions :
         LET call_status == daily_statuses[status_idx]
             jitter == uniform(jitter_max, f)
             time_advance ==
                 TimeAdvance(total_business_seconds, total_calls_per_day, jitter)
             cursor == DtAdd(time_cursor, time_advance)
         IN  /\ time_cursor' = cursor
             /\ IF PastBusinessEnd(cursor, day_end_time)
                THEN /\ broke' = broke \cup {<<current_date, phone_idx>>}
                     /\ phone_idx' = phone_idx + 1
                     /\ pc' = "for_phone"
                     /\ UNCHANGED <<all_records, attempt, status_idx, rec_iter>>
                ELSE /\ \E length \in CallLength(call_status) :
                          all_records' = Append(all_records,
                              MakeRecord(cursor, attempt, lead_id, call_status,
                                         length, strip(phone_numbers[phone_idx])))
                     /\ rec_iter' = Append(rec_iter, <<current_date, phone_idx>>)
                     /\ attempt' = attempt + 1
                     /\ status_idx' = status_idx + 1
                     /\ UNCHANGED <<broke, phone_idx, pc>>
    /\ UNCHANGED <<args, current_date, lead_id, daily_statuses>>
    /\ UNCHANGED rvars

NextGen == WhileDay \/ NextDay \/ SkipBlank \/ StartLine \/ EndLine \/ CallSlot

SpecGen == InitGen /\ [][NextGen]_vars

(***************************************************************************)
(* create_pdf_bytes.  Lengths are in units of 1/100000 mm.  The FPDF       *)
(* object is its page count, the ordinate y, the fill colour, the font     *)
(* style, the text colour and the height of the last cell; cells is the    *)
(* list of the cells painted and calls the list of print_row invocations.  *)
(***************************************************************************)
TopMargin == 1000125            \* 28.35 pt: y after add_page()
PageBreakTrigger == 18999906    \* A4 landscape height less the 2 cm bottom margin
BreakThreshold == 18000000      \* 180 in: if pdf.get_y() > 180
RowHeight == 700000             \* 7 in: pdf.cell(width, 7, ...)

HeaderFill == <<200, 220, 255>>
DataFill == <<255, 255, 255>>
AnsweredText == <<0, 100, 0>>
DefaultText == <<0, 0, 0>>

col_widths == <<45, 20, 30, 30, 30, 45>>

\* the keys of a record, in the order of the dict
ColumnOrder == <<"Date Time", "Attempt", "Lead ID", "Status", "Length (s)", "Phone">>

\* pd.DataFrame(data): the columns are the keys of the records, so a frame
\* made of no record has no column; a row lists a record's values
DataFrame(data) ==
    [ columns |-> IF data = <<>> THEN <<>> ELSE ColumnOrder,
      values  |-> [ i \in 1..Len(data) |->
                      << data[i].DateTime, data[i].Attempt, data[i].LeadID,
                         data[i].Status, data[i].Length, data[i].Phone >> ] ]

\* zip(data, col_widths): as many pairs as the shorter of the two
ZipLen(data) == Min(Len(data), Len(col_widths))

\* the check on the bottom edge of the cell instead of its top
PageBreakNeededBottom(yy) == yy + RowHeight > BreakThreshold

\* if pdf.get_y() > 180
PageBreakNeeded(yy) == yy > BreakThreshold

\* a cell drawn with ln=1, which moves to the next line
CellEndYNewline(yy, h) == yy + h

\* pdf.cell(..., ln=0): the position moves right, y stays
CellEndY(yy, h) == yy

\* the fill colour print_row sets on entry
RowFill(is_header) == IF is_header THEN HeaderFill ELSE DataFill

\* the font style print_row sets on entry
RowStyle(is_header) == IF is_header THEN "B" ELSE ""

\* the frame of a call of print_row(data, is_header)
Frame(data, is_header) ==
    [ data |-> data, is_header |-> is_header, col |-> 1, checked |-> FALSE,
      call |-> Len(calls) + 1 ]

\* a list of records as generate_all_call_data returns for one line on one
\* day: attempt i one minute after attempt i - 1, every other one Answered
SampleRecords(n, first) ==
    [ i \in 1..n |->
        LET call_status == IF (i + first) % 2 = 0 THEN "Answered" ELSE "Busy"
        IN  MakeRecord([s |-> SecondsPerDay + 9 * SecondsPerHour + 60 * i, us |-> 0],
                       i, LeadIdLow, call_status,
                       IF call_status = "Answered" THEN LengthLow ELSE 0, <<"5">>) ]

\* generate_all_call_data is not running
GenIdle ==
    /\ phone_numbers = <<>> /\ start_date = 1 /\ end_date = 1
    /\ business_start = 0 /\ business_end = 0
    /\ total_calls_per_day = 0 /\ avg_answered_total = 0 /\ jitter_max = 0
    /\ all_records = <<>> /\ current_date = 1 /\ phone_idx = 0 /\ lead_id = 0
    /\ attempt = 0 /\ daily_statuses = <<>> /\ status_idx = 0
    /\ time_cursor = Midnight(1) /\ pc = "idle" /\ rec_iter = <<>> /\ broke = {}

\* df = pd.DataFrame(data); pdf = FPDF(...); pdf.add_page(); pdf.set_font(...)
InitPdf ==
    /\ GenIdle
    /\ \E n \in 0..MaxRows, first \in {0, 1} : df = DataFrame(SampleRecords(n, first))
    /\ page = 1
    /\ y = TopMargin
    /\ fill_color = DefaultText
    /\ font_style = ""
    /\ text_color = DefaultText
    /\ lasth = 0
    /\ stack = <<>>
    /\ cells = <<>>
    /\ calls = <<>>
    /\ row_idx = 0
    /\ rpc = "header"

\* entry of print_row(data, is_header): set_fill_color and set_font
EnterRow(data, is_header, below) ==
    /\ fill_color' = RowFill(is_header)
    /\ font_style' = RowStyle(is_header)
    /\ stack' = <<Frame(data, is_header)>> \o below
    /\ calls' = Append(calls, [data |-> data, is_header |-> is_header])

\* print_row(df.columns.tolist(), is_header=True)
PrintHeaderRow ==
    /\ rpc = "header"
    /\ EnterRow(df.columns, TRUE, <<>>)
    /\ rpc' = "rows"
    /\ UNCHANGED <<df, page, y, text_color, lasth, cells, row_idx>>
    /\ UNCHANGED gvars

\* for row in df.values.tolist(): set_text_color; print_row(row)
PrintDataRow ==
    /\ rpc = "rows"
    /\ stack = <<>>
    /\ row_idx < Len(df.values)
    /\ row_idx' = row_idx + 1
    /\ text_color' = IF df.values[row_idx + 1][4] = "Answered"
                     THEN AnsweredText ELSE DefaultText
    /\ EnterRow(df.values[row_idx + 1], FALSE, <<>>)
    /\ UNCHANGED <<df, page, y, lasth, cells, rpc>>
    /\ UNCHANGED gvars

\* if pdf.get_y() > 180: pdf.add_page(); print_row(df.columns.tolist(), True)
PageBreak ==
    /\ stack # <<>>
    /\ LET top == Head(stack)
       IN  /\ top.col <= ZipLen(top.data)
           /\ ~top.checked
           /\ PageBreakNeeded(y)
           /\ page' = page + 1
           /\ y' = TopMargin
           /\ EnterRow(df.columns, TRUE,
                       <<[top EXCEPT !.checked = TRUE]>> \o Tail(stack))
    /\ UNCHANGED <<df, text_color, lasth, cells, row_idx, rpc>>
    /\ UNCHANGED gvars

\* pdf.cell(width, 7, str(item), border=1, ln=0, align='C', fill=True); the
\* cell itself starts a page when it would cross the bottom margin
DrawCell ==
    /\ stack # <<>>
    /\ LET top  == Head(stack)
           auto == y + RowHeight > PageBreakTrigger
           pg   == IF auto THEN page + 1 ELSE page
           yy   == IF auto THEN TopMargin ELSE y
       IN  /\ top.col <= ZipLen(top.data)
           /\ top.checked \/ ~PageBreakNeeded(y)
           /\ page' = pg
           /\ cells' = Append(cells,
                  [ call |-> top.call, is_header |-> top.is_header,
                    col |-> top.col, width |-> col_widths[top.col], page |-> pg,
                    fill |-> fill_color, style |-> font_style, text |-> text_color ])
           /\ lasth' = RowHeight
           /\ y' = CellEndY(yy, RowHeight)
           /\ stack' = <<[top EXCEPT !.col = top.col + 1, !.checked = FALSE]>>
                       \o Tail(stack)
    /\ UNCHANGED <<df, fill_color, font_style, text_color, calls, row_idx, rpc>>
    /\ UNCHANGED gvars

\* pdf.ln(): down by the height of the last cell; print_row returns
EndRow ==
    /\ stack # <<>>
    /\ Head(stack).col > ZipLen(Head(stack).data)
    /\ y' = y + lasth
    /\ stack' = Tail(stack)
    /\ UNCHANGED <<df, page, fill_color, font_style, text_color, lasth, cells,
                   calls, row_idx, rpc>>
    /\ UNCHANGED gvars

\* return pdf.output(dest='S').encode('latin-1')
Output ==
    /\ rpc = "rows"
    /\ stack = <<>>
    /\ row_idx = Len(df.values)
    /\ rpc' = "done"
    /\ UNCHANGED <<df, page, y, fill_color, font_style, text_color, lasth, stack,
                   cells, calls, row_idx>>
    /\ UNCHANGED gvars

NextPdf == PrintHeaderRow \/ PrintDataRow \/ PageBreak \/ DrawCell \/ EndRow \/ Output

SpecPdf == InitPdf /\ [][NextPdf]_vars

(***************************************************************************)
(* Properties of the records returned by generate_all_call_data            *)
(***************************************************************************)
Returned == pc = "done"

Recs == 1..Len(all_records)

\* the instant a record's "Date Time" string denotes, in seconds
Stamp(r) == r.DateTime.day * SecondsPerDay + r.DateTime.sec

\* the records with the Phone and the calendar day of record i
GroupOf(i) ==
    { j \in Recs : /\ all_records[j].Phone = all_records[i].Phone
                   /\ all_records[j].DateTime.day = all_records[i].DateTime.day }

\* the (day, list position) iterations of the two outer loops that reach the
\* lead-id draw: one per day of the range and non-blank entry of the list
Iterations ==
    { it \in (start_date..end_date) \X (1..Len(phone_numbers)) :
        strip(phone_numbers[it[2]]) # <<>> }

\* the records one iteration appended
RecsOf(it) == { j \in Recs : rec_iter[j] = it }

AnsweredIn(S) == { j \in S : all_records[j].Status = "Answered" }

Precondition ==
    /\ business_end > business_start
    /\ total_calls_per_day >= 1
    /\ 0 <= avg_answered_total /\ avg_answered_total <= total_calls_per_day
    /\ jitter_max >= 0

\* C1: under the preconditions, within each (Phone, calendar day) group of
\* the returned records the Attempt values are exactly 1..k, each once, and
\* a record with a larger Attempt has a strictly later timestamp.
C1_AttemptsContiguousTimestampsIncreasing ==
    (Returned /\ Precondition) =>
        \A i \in Recs :
            LET G == GroupOf(i)
            IN  /\ \A j \in G : all_records[j].Attempt \in 1..Cardinality(G)
                /\ \A n \in 1..Cardinality(G) :
                       Cardinality({ j \in G : all_records[j].Attempt = n }) = 1
                /\ \A a, b \in G :
                       all_records[a].Attempt < all_records[b].Attempt
                           => Stamp(all_records[a]) < Stamp(all_records[b])

C3_AnsweredCountPerPhoneAndDay ==
    Returned =>
        \A i \in Recs :
            LET G == GroupOf(i)
                n == Cardinality(AnsweredIn(G))
                m == Min(avg_answered_total, total_calls_per_day)
            IN  /\ n <= m
                /\ (\A j \in G : rec_iter[j] \notin broke) => n = m

\* C3 amended: for each iteration of the phone loop (one per day and
\* non-blank list entry) the number of Answered records it appended is at
\* most min(answeredPerDay, totalCallsPerDay), and equals it when the
\* iteration did not leave the status loop through the business-end break.
C3_AnsweredCountPerIteration ==
    Returned =>
        \A it \in Iterations :
            LET n == Cardinality(AnsweredIn(RecsOf(it)))
                m == Min(avg_answered_total, total_calls_per_day)
            IN  /\ n <= m
                /\ it \notin broke => n = m

\* an iteration that ran all its slots and appended at least one Answered
\* record, beside one that was cut short by the business end
C3_Witness ==
    /\ Returned
    /\ \E it \in Iterations :
           /\ it \notin broke
           /\ Cardinality(AnsweredIn(RecsOf(it))) >= 1
    /\ \E it \in Iterations : it \in broke

\* C4 as stated: all returned records with the same Phone and calendar day
\* carry the same Lead ID, for every list of phone lines.
C4_LeadIdPerPhoneAndDay ==
    Returned =>
        \A i \in Recs : \A j \in GroupOf(i) :
            all_records[j].LeadID = all_records[i].LeadID

\* C4 amended: all records appended by the same iteration of the phone loop
\* (one per day and list entry) carry the same Lead ID.
C4_LeadIdPerIteration ==
    Returned =>
        \A i, j \in Recs :
            rec_iter[i] = rec_iter[j] => all_records[j].LeadID = all_records[i].LeadID

\* two records appended by one iteration
C4_Witness ==
    /\ Returned
    /\ \E i, j \in Recs : i # j /\ rec_iter[i] = rec_iter[j]

\* C5: a record's Length is 0 when its Status is not Answered and lies in
\* 1..14 when its Status is Answered.
C5_LengthByStatus ==
    \A i \in Recs :
        IF all_records[i].Status = "Answered"
        THEN all_records[i].Length \in 1..14
        ELSE all_records[i].Length = 0

\* a returned list with an Answered record and a record of another status
C5_Witness ==
    /\ Returned
    /\ \E i, j \in Recs : /\ all_records[i].Status = "Answered"
                          /\ all_records[j].Status # "Answered"

Rendered == rpc = "done"

NRecords == Len(df.values)

\* the data rows that fit under a header before the check starts a page
RowsPerPage == (BreakThreshold - TopMargin) \div RowHeight

HeaderCalls == { c \in 1..Len(calls) : calls[c].is_header }

CellsOf(c) == { i \in 1..Len(cells) : cells[i].call = c }

\* C6 as stated: rendering N records paints the header row
\* 1 + floor(N / rowsPerPage) times, for every N >= 0.
C6_HeaderCountFloorN ==
    Rendered => Cardinality(HeaderCalls) = 1 + (NRecords \div RowsPerPage)

\* C6 amended: rendering N >= 1 records paints the header row
\* 1 + floor((N - 1) / rowsPerPage) times, each time with all its cells; a
\* page is started only when a further data row follows a full page, so N an
\* exact multiple of rowsPerPage adds no header.
C6_HeaderCountFloorNMinusOne ==
    (Rendered /\ NRecords >= 1) =>
        /\ Cardinality(HeaderCalls) = 1 + ((NRecords - 1) \div RowsPerPage)
        /\ \A c \in HeaderCalls : Cardinality(CellsOf(c)) = Len(ColumnOrder)
        /\ page = Cardinality(HeaderCalls)

\* a document of exactly two full pages
C6_Witness ==
    /\ Rendered
    /\ NRecords = 2 * RowsPerPage
    /\ page = 2

\* C7: every cell of a header row is painted with the header fill in bold,
\* every cell of a data row with the white fill in regular weight.
C7_RowStyles ==
    \A i \in 1..Len(cells) :
        IF cells[i].is_header
        THEN cells[i].fill = HeaderFill /\ cells[i].style = "B"
        ELSE cells[i].fill = DataFill /\ cells[i].style = ""

\* C8: all cells of one row are painted on the same page, and the threshold
\* check starts a page only before the first cell of a row.
C8_RowOnOnePage ==
    /\ Rendered =>
           \A i, j \in 1..Len(cells) :
               cells[i].call = cells[j].call => cells[i].page = cells[j].page
    /\ (stack # <<>> /\ Head(stack).col <= ZipLen(Head(stack).data)
           /\ ~Head(stack).checked /\ PageBreakNeeded(y))
         => Head(stack).col = 1

\* a document whose second page holds a complete data row
C8_Witness ==
    /\ Rendered
    /\ \E i \in 1..Len(cells) :
           /\ ~cells[i].is_header
           /\ cells[i].page = 2
           /\ cells[i].col = Len(col_widths)

\* the phone-line lists that are empty after trimming
AllBlank(list) == \A i \in 1..Len(list) : strip(list[i]) = <<>>

\* C9, first half: a phone-line list that is empty after trimming yields no
\* record.
C9_BlankListReturnsNothing ==
    (Returned /\ AllBlank(phone_numbers)) => all_records = <<>>

====
